---------------------------- MODULE Spec2Model ----------------------------
(***************************************************************************)
(* Kanban task tracker (src/kanban): the Task entity and its pre-condition *)
(* checks (domain.rs), the in-memory TaskRepository (repository.rs) and    *)
(* the TaskService that orchestrates them (service.rs).                    *)
(*                                                                         *)
(* Strings that the code inspects (task names) are sequences of one-letter *)
(* strings, so that to_lowercase is computed.  Option<T> is a sequence of  *)
(* length at most one: None is << >>, Some(x) is <<x>>.  A Result is a     *)
(* record [ok, err, out]; an error message is the format string with its   *)
(* argument.  A reference to a stored task is its position in the vector   *)
(* (1-based).                                                              *)
(*                                                                         *)
(* lib.rs holds an earlier App with the task list and its operations in   *)
(* one struct; it is modelled at the end of the module.                    *)
(*                                                                         *)
(* Six callers are specified:                                              *)
(*   Spec          any sequence of TaskService calls, with any input;      *)
(*   SpecRepo      any sequence of TaskRepository calls that change the    *)
(*                 vector, with any Task value;                            *)
(*   SpecRepoClock the same calls over a stretch of time, with tasks built *)
(*                 by Task::new;                                           *)
(*   SpecScenario  a fixed script of TaskService calls;                    *)
(*   SpecApp       any sequence of App calls, until one panics;            *)
(*   SpecBoth      any sequence of calls made on the TaskService and on    *)
(*                 the repository of inmemory_repository.rs side by side.  *)
(* find_by_id and find_by_name hand out &mut Task; the callers specified   *)
(* here only read through it.                                              *)
(***************************************************************************)
EXTENDS Integers, Sequences, FiniteSets, TLC

VARIABLES
    tasks,   \* InMemoryTaskRepository::tasks, the vector of stored tasks
    now,     \* the last reading of the clock (Utc::now)
    last,    \* the last call made, with its arguments and what it returned
    moved,   \* history: per stored task, the successful transitions so far
    pc,      \* the position of a scripted caller in its script
    mem      \* the vector of the repository of inmemory_repository.rs, when
             \* it is run side by side with the Service

vars == <<tasks, now, last, moved, pc, mem>>

(***************************************************************************)
(* Bounds of the model.                                                    *)
(***************************************************************************)
\* the number of tasks a repository may hold before add_task is no longer tried
MaxTasks == 3
\* the last instant of the clock read by Utc::now()
MaxClock == 0

(***************************************************************************)
(* Option<T>                                                               *)
(***************************************************************************)
None == << >>
Some(x) == <<x>>
is_none(o) == o = << >>
is_some(o) == o # << >>
unwrap(o) == o[1]

(***************************************************************************)
(* domain.rs: Status                                                       *)
(***************************************************************************)
Todo == "Todo"
Doing == "Doing"
Done == "Done"
StatusNone == "None"
Status == {Todo, Doing, Done, StatusNone}

(***************************************************************************)
(* Names and descriptions used as inputs                                   *)
(***************************************************************************)
EmptyName == << >>
task1 == <<"t", "a", "s", "k", "1">>
TASK1 == <<"T", "A", "S", "K", "1">>
task_2 == <<"t", "a", "s", "k", " ", "2">>
task_3 == <<"t", "a", "s", "k", " ", "3">>

\* the (name, description) pairs TaskService::add_task is called with
AddInputs ==
    { <<task1, "description1">>,
      <<TASK1, "description task 2">>,
      <<task_2, "description task 2">>,
      <<task_3, "description task 3">>,
      <<EmptyName, "description">> }

\* the ids the operations are called with: 0 and one past the capacity included
IdInputs == 0..(MaxTasks + 1)

(***************************************************************************)
(* str::to_lowercase, on the letters the inputs are made of                *)
(***************************************************************************)
lower_char(c) ==
    CASE c = "T" -> "t"
      [] c = "A" -> "a"
      [] c = "S" -> "s"
      [] c = "K" -> "k"
      [] OTHER -> c

to_lowercase(s) == [i \in 1..Len(s) |-> lower_char(s[i])]

(***************************************************************************)
(* Result<T, String>                                                       *)
(***************************************************************************)
NoErr == [fmt |-> "", arg |-> << >>]
Msg(m) == [fmt |-> m, arg |-> << >>]
Format(f, a) == [fmt |-> f, arg |-> a]
Ok(v) == [ok |-> TRUE, err |-> NoErr, out |-> v]
Err(e) == [ok |-> FALSE, err |-> e, out |-> << >>]

(***************************************************************************)
(* domain.rs: Task                                                         *)
(***************************************************************************)
Task_new(name, description, t) ==
    [ id |-> None,
      name |-> name,
      description |-> description,
      status |-> Todo,
      created_at |-> t,
      updated_at |-> None ]

\* the check of the name left out
before_add_no_name_check(task) ==
    IF task.status # Todo
    THEN Err(Msg("New task must be in todo state"))
    ELSE Ok(<< >>)

before_add(task) ==
    IF task.name = << >>
    THEN Err(Msg("Task name is required"))
    ELSE IF task.status # Todo
    THEN Err(Msg("New task must be in todo state"))
    ELSE Ok(<< >>)

\* the check the App of lib.rs makes: only a completed task is refused
before_move_to_doing_only_rejects_done(task) ==
    IF task.status = Done
    THEN Err(Msg("New task must be in the Todo state"))
    ELSE Ok(<< >>)

before_move_to_doing(task) ==
    IF task.status # Todo
    THEN Err(Msg("New task must be in the Todo state"))
    ELSE Ok(<< >>)

before_move_to_done(task) ==
    IF task.status # Doing
    THEN Err(Msg("New task must be in progress to mark as complete"))
    ELSE Ok(<< >>)

(***************************************************************************)
(* repository.rs: InMemoryTaskRepository.  Each operation takes the vector *)
(* `ts` (and the clock reading `t` when it calls Utc::now) and yields the  *)
(* vector after the call and the value returned.                           *)
(***************************************************************************)
\* Iterator::position / Iterator::find: the first index of a set of matches
first_of(matches) ==
    IF matches = {}
    THEN None
    ELSE Some(CHOOSE i \in matches : \A j \in matches : i <= j)

\* the id taken for the 0-based index of the task
find_by_id_zero_based(ts, id) ==
    first_of({i \in 1..Len(ts) : ts[i].id = Some(id + 1)})

find_by_id(ts, id) ==
    first_of({i \in 1..Len(ts) : ts[i].id = Some(id)})

\* the names compared as they are, without lower-casing
find_by_name_case_sensitive(ts, name) ==
    first_of({i \in 1..Len(ts) : ts[i].name = name})

\* only the stored name lower-cased, the argument compared as given
find_by_name_argument_as_given(ts, name) ==
    first_of({i \in 1..Len(ts) : to_lowercase(ts[i].name) = name})

find_by_name(ts, name) ==
    first_of({i \in 1..Len(ts) : to_lowercase(ts[i].name) = to_lowercase(name)})

\* the id taken from the length before the push: ids start at 0
repo_add_task_id_from_zero(ts, task) ==
    LET t == find_by_name(ts, task.name) IN
    IF is_some(t)
    THEN [tasks |-> ts,
          res |-> Err(Format("Task with name '{}' already exists",
                             ts[unwrap(t)].name))]
    ELSE LET stored == [task EXCEPT !.id = Some(Len(ts))] IN
         [tasks |-> Append(ts, stored), res |-> Ok(<<stored>>)]

\* the error message built from the name passed in, not the stored one
repo_add_task_names_input(ts, task) ==
    LET t == find_by_name(ts, task.name) IN
    IF is_some(t)
    THEN [tasks |-> ts,
          res |-> Err(Format("Task with name '{}' already exists", task.name))]
    ELSE LET stored == [task EXCEPT !.id = Some(Len(ts) + 1)] IN
         [tasks |-> Append(ts, stored), res |-> Ok(<<stored>>)]

\* the name normalised before it is stored: the task keeps its lower-cased name
repo_add_task_lowercases_name(ts, task) ==
    LET t == find_by_name(ts, task.name) IN
    IF is_some(t)
    THEN [tasks |-> ts,
          res |-> Err(Format("Task with name '{}' already exists",
                             ts[unwrap(t)].name))]
    ELSE LET stored == [task EXCEPT !.id = Some(Len(ts) + 1),
                                    !.name = to_lowercase(task.name)] IN
         [tasks |-> Append(ts, stored), res |-> Ok(<<stored>>)]

\* the assignment of the id left out: the task is pushed with the id it came with
repo_add_task_keeps_id(ts, task) ==
    LET t == find_by_name(ts, task.name) IN
    IF is_some(t)
    THEN [tasks |-> ts,
          res |-> Err(Format("Task with name '{}' already exists",
                             ts[unwrap(t)].name))]
    ELSE [tasks |-> Append(ts, task), res |-> Ok(<<task>>)]

repo_add_task(ts, task) ==
    LET t == find_by_name(ts, task.name) IN
    IF is_some(t)
    THEN [tasks |-> ts,
          res |-> Err(Format("Task with name '{}' already exists",
                             ts[unwrap(t)].name))]
    \* (len + 1) as u32: the cast truncates only from 2^32 tasks on
    ELSE LET stored == [task EXCEPT !.id = Some(Len(ts) + 1)] IN
         [tasks |-> Append(ts, stored), res |-> Ok(<<stored>>)]

\* an update that inserts: a task whose id is not stored is pushed
repo_update_or_insert(ts, task) ==
    LET pos == first_of({i \in 1..Len(ts) : ts[i].id = task.id}) IN
    IF is_some(pos)
    THEN [tasks |-> [ts EXCEPT ![unwrap(pos)] = task], res |-> Ok(<< >>)]
    ELSE [tasks |-> Append(ts, task), res |-> Ok(<< >>)]

repo_update(ts, task) ==
    LET pos == first_of({i \in 1..Len(ts) : ts[i].id = task.id}) IN
    IF is_some(pos)
    THEN [tasks |-> [ts EXCEPT ![unwrap(pos)] = task], res |-> Ok(<< >>)]
    ELSE [tasks |-> ts, res |-> Ok(<< >>)]

\* a slip in the status assigned: the task is marked completed at once
repo_move_to_doing_sets_done(ts, id, t) ==
    LET task == find_by_id(ts, id) IN
    IF is_none(task)
    THEN [tasks |-> ts, res |-> Err(Msg("Task not found"))]
    ELSE IF ts[unwrap(task)].status # Todo
    THEN [tasks |-> ts,
          res |-> Err(Msg("task must be in Todo state to move to in progress"))]
    ELSE [tasks |-> [ts EXCEPT ![unwrap(task)].status = Done,
                               ![unwrap(task)].updated_at = Some(t)],
          res |-> Ok(<< >>)]

\* the assignment of updated_at left out: only the status is set
repo_move_to_doing_no_timestamp(ts, id, t) ==
    LET task == find_by_id(ts, id) IN
    IF is_none(task)
    THEN [tasks |-> ts, res |-> Err(Msg("Task not found"))]
    ELSE IF ts[unwrap(task)].status # Todo
    THEN [tasks |-> ts,
          res |-> Err(Msg("task must be in Todo state to move to in progress"))]
    ELSE [tasks |-> [ts EXCEPT ![unwrap(task)].status = Doing],
          res |-> Ok(<< >>)]

repo_move_to_doing(ts, id, t) ==
    LET task == find_by_id(ts, id) IN
    IF is_none(task)
    THEN [tasks |-> ts, res |-> Err(Msg("Task not found"))]
    ELSE IF ts[unwrap(task)].status # Todo
    THEN [tasks |-> ts,
          res |-> Err(Msg("task must be in Todo state to move to in progress"))]
    ELSE [tasks |-> [ts EXCEPT ![unwrap(task)].status = Doing,
                               ![unwrap(task)].updated_at = Some(t)],
          res |-> Ok(<< >>)]

\* the assignment of the status left out: only updated_at is set
repo_move_to_done_keeps_status(ts, id, t) ==
    LET task == find_by_id(ts, id) IN
    IF is_none(task)
    THEN [tasks |-> ts, res |-> Err(Msg("Task not found"))]
    ELSE IF ts[unwrap(task)].status # Doing
    THEN [tasks |-> ts,
          res |-> Err(Msg("task must be in progress to mark as complete"))]
    ELSE [tasks |-> [ts EXCEPT ![unwrap(task)].updated_at = Some(t)],
          res |-> Ok(<< >>)]

\* updated_at set before the status is checked
repo_move_to_done_checks_late(ts, id, t) ==
    LET task == find_by_id(ts, id) IN
    IF is_none(task)
    THEN [tasks |-> ts, res |-> Err(Msg("Task not found"))]
    ELSE IF ts[unwrap(task)].status # Doing
    THEN [tasks |-> [ts EXCEPT ![unwrap(task)].updated_at = Some(t)],
          res |-> Err(Msg("task must be in progress to mark as complete"))]
    ELSE [tasks |-> [ts EXCEPT ![unwrap(task)].status = Done,
                               ![unwrap(task)].updated_at = Some(t)],
          res |-> Ok(<< >>)]

\* the completed task taken out of its place and pushed at the end
repo_move_to_done_reorders(ts, id, t) ==
    LET task == find_by_id(ts, id) IN
    IF is_none(task)
    THEN [tasks |-> ts, res |-> Err(Msg("Task not found"))]
    ELSE IF ts[unwrap(task)].status # Doing
    THEN [tasks |-> ts,
          res |-> Err(Msg("task must be in progress to mark as complete"))]
    ELSE [tasks |-> Append(SelectSeq(ts, LAMBDA x : x.id # Some(id)),
                           [ts[unwrap(task)] EXCEPT !.status = Done,
                                                    !.updated_at = Some(t)]),
          res |-> Ok(<< >>)]

repo_move_to_done(ts, id, t) ==
    LET task == find_by_id(ts, id) IN
    IF is_none(task)
    THEN [tasks |-> ts, res |-> Err(Msg("Task not found"))]
    ELSE IF ts[unwrap(task)].status # Doing
    THEN [tasks |-> ts,
          res |-> Err(Msg("task must be in progress to mark as complete"))]
    ELSE [tasks |-> [ts EXCEPT ![unwrap(task)].status = Done,
                               ![unwrap(task)].updated_at = Some(t)],
          res |-> Ok(<< >>)]

\* the wildcard branch left out: Status::None is filtered like any status
list_by_status_no_wildcard(ts, status) ==
    SelectSeq(ts, LAMBDA t : t.status = status)

list_by_status(ts, status) ==
    IF status = StatusNone
    THEN ts
    ELSE SelectSeq(ts, LAMBDA t : t.status = status)

(***************************************************************************)
(* service.rs: TaskService<R>.  `calls` lists the repository methods the   *)
(* operation invoked, in order.                                            *)
(***************************************************************************)
svc_add_task(ts, name, desc, t) ==
    LET task == Task_new(name, desc, t)
        v == before_add(task)
    IN  IF ~v.ok
        THEN [tasks |-> ts, res |-> v, calls |-> << >>]
        ELSE LET r == repo_add_task(ts, task) IN
             [tasks |-> r.tasks, res |-> r.res, calls |-> <<"add_task">>]

svc_move_to_doing(ts, id, t) ==
    LET task == find_by_id(ts, id) IN
    IF is_none(task)
    THEN [tasks |-> ts, res |-> Err(Msg("No task found")),
          calls |-> <<"find_by_id">>]
    ELSE LET v == before_move_to_doing(ts[unwrap(task)]) IN
         IF ~v.ok
         THEN [tasks |-> ts, res |-> v, calls |-> <<"find_by_id">>]
         ELSE LET r == repo_move_to_doing(ts, id, t) IN
              [tasks |-> r.tasks, res |-> r.res,
               calls |-> <<"find_by_id", "move_to_doing">>]

svc_move_to_done(ts, id, t) ==
    LET task == find_by_id(ts, id) IN
    IF is_none(task)
    THEN [tasks |-> ts, res |-> Err(Msg("No task found")),
          calls |-> <<"find_by_id">>]
    ELSE LET v == before_move_to_done(ts[unwrap(task)]) IN
         IF ~v.ok
         THEN [tasks |-> ts, res |-> v, calls |-> <<"find_by_id">>]
         ELSE LET r == repo_move_to_done(ts, id, t) IN
              [tasks |-> r.tasks, res |-> r.res,
               calls |-> <<"find_by_id", "move_to_done">>]

svc_list_by_status(ts, status) == list_by_status(ts, status)

svc_find_by_id(ts, id) ==
    LET task == find_by_id(ts, id) IN
    IF is_some(task) THEN Some(ts[unwrap(task)]) ELSE None

(***************************************************************************)
(* The state, and the calls as actions.                                    *)
(***************************************************************************)
Call(op, id, name, status, arg, res, calls) ==
    [op |-> op, id |-> id, name |-> name, status |-> status, arg |-> arg,
     ok |-> res.ok, err |-> res.err, out |-> res.out, calls |-> calls]

Init ==
    /\ tasks = << >>
    /\ now = 0
    /\ last = Call("new", 0, << >>, StatusNone, None, Ok(<< >>), << >>)
    /\ moved = << >>
    /\ pc = 0
    /\ mem = << >>

\* Utc::now(): a reading of a clock that does not go backward
Clock == now..MaxClock

\* one more successful transition of a kind, counted up to "more than once"
Bump(n) == IF n < 2 THEN n + 1 ELSE n

Svc_add_task(name, desc) ==
    \E t \in Clock :
        LET r == svc_add_task(tasks, name, desc, t) IN
        /\ Len(r.tasks) <= MaxTasks
        /\ tasks' = r.tasks
        /\ now' = t
        /\ last' = Call("add_task", 0, name, StatusNone, None, r.res, r.calls)
        /\ moved' = IF r.res.ok
                    THEN Append(moved, [doing |-> 0, done |-> 0])
                    ELSE moved

Svc_move_to_doing(id) ==
    \E t \in Clock :
        LET r == svc_move_to_doing(tasks, id, t) IN
        /\ tasks' = r.tasks
        /\ now' = IF r.res.ok THEN t ELSE now
        /\ last' = Call("move_to_doing", id, << >>, StatusNone, None,
                        r.res, r.calls)
        /\ moved' = IF r.res.ok
                    THEN [moved EXCEPT ![unwrap(find_by_id(tasks, id))].doing
                                            = Bump(@)]
                    ELSE moved

Svc_move_to_done(id) ==
    \E t \in Clock :
        LET r == svc_move_to_done(tasks, id, t) IN
        /\ tasks' = r.tasks
        /\ now' = IF r.res.ok THEN t ELSE now
        /\ last' = Call("move_to_done", id, << >>, StatusNone, None,
                        r.res, r.calls)
        /\ moved' = IF r.res.ok
                    THEN [moved EXCEPT ![unwrap(find_by_id(tasks, id))].done
                                            = Bump(@)]
                    ELSE moved

Svc_list_by_status(status) ==
    /\ last' = Call("list_by_status", 0, << >>, status, None,
                    Ok(svc_list_by_status(tasks, status)), <<"list_by_status">>)
    /\ UNCHANGED <<tasks, now, moved>>

Svc_find_by_id(id) ==
    /\ last' = Call("find_by_id", id, << >>, StatusNone, None,
                    Ok(svc_find_by_id(tasks, id)), <<"find_by_id">>)
    /\ UNCHANGED <<tasks, now, moved>>

(***************************************************************************)
(* A caller of TaskService: any of its five operations, with any input.    *)
(***************************************************************************)
Next ==
    \/ \E in \in AddInputs : Svc_add_task(in[1], in[2]) /\ UNCHANGED <<pc, mem>>
    \/ \E id \in IdInputs : Svc_move_to_doing(id) /\ UNCHANGED <<pc, mem>>
    \/ \E id \in IdInputs : Svc_move_to_done(id) /\ UNCHANGED <<pc, mem>>
    \/ \E s \in Status : Svc_list_by_status(s) /\ UNCHANGED <<pc, mem>>
    \/ \E id \in IdInputs : Svc_find_by_id(id) /\ UNCHANGED <<pc, mem>>

Spec == Init /\ [][Next]_vars

(***************************************************************************)
(* Properties of the Service (specification Spec)                          *)
(***************************************************************************)
\* the call recorded in last' is a successful `op` on the task stored at i
Moving(op, i) == last'.op = op /\ last'.ok /\ tasks[i].id = Some(last'.id)

C1_Step ==
    /\ Len(tasks') >= Len(tasks)
    /\ \A i \in 1..Len(tasks) :
          \/ /\ tasks'[i].status = tasks[i].status
             /\ ~Moving("move_to_doing", i)
             /\ ~Moving("move_to_done", i)
          \/ /\ tasks[i].status = Todo
             /\ tasks'[i].status = Doing
             /\ Moving("move_to_doing", i)
          \/ /\ tasks[i].status = Doing
             /\ tasks'[i].status = Done
             /\ Moving("move_to_done", i)
    /\ (last'.op \in {"move_to_doing", "move_to_done"} /\ last'.ok)
          => \E i \in 1..Len(tasks) : tasks[i].id = Some(last'.id)

C1_Calls ==
    \A id \in IdInputs : \A t \in Clock :
        LET doing == svc_move_to_doing(tasks, id, t)
            done == svc_move_to_done(tasks, id, t)
        IN  /\ doing.res.ok =>
                 \E i \in 1..Len(tasks) :
                     /\ tasks[i].id = Some(id)
                     /\ tasks[i].status = Todo
                     /\ doing.tasks[i].status = Doing
            /\ done.res.ok =>
                 \E i \in 1..Len(tasks) :
                     /\ tasks[i].id = Some(id)
                     /\ tasks[i].status = Doing
                     /\ done.tasks[i].status = Done

\* C1: over any sequence of TaskService calls, a stored task's status changes
\* only Todo -> Doing by a successful move_to_doing of its id and Doing -> Done
\* by a successful move_to_done of its id; it never moves backward, never goes
\* Todo -> Done in one step, and a successful move always changes the status.
C1_StatusForwardOnly == [][C1_Step]_vars /\ []C1_Calls

\* a task has been taken through both transitions, the last call being the
\* successful move_to_done
C1_Witness ==
    /\ last.op = "move_to_done"
    /\ last.ok
    /\ \E i \in 1..Len(tasks) :
          /\ tasks[i].id = Some(last.id)
          /\ tasks[i].status = Done
          /\ moved[i] = [doing |-> 1, done |-> 1]

C3_Ids ==
    /\ Len(moved) = Len(tasks)
    /\ \A i \in 1..Len(tasks) : tasks[i].id = Some(i)

C3_Calls ==
    \A in \in AddInputs : \A t \in Clock :
        LET r == svc_add_task(tasks, in[1], in[2], t) IN
        IF r.res.ok
        THEN /\ r.tasks = Append(tasks, unwrap(r.res.out))
             /\ unwrap(r.res.out).id = Some(Len(tasks) + 1)
        ELSE r.tasks = tasks

C3_Step ==
    IF last'.op = "add_task" /\ last'.ok
    THEN /\ tasks' = Append(tasks, unwrap(last'.out))
         /\ unwrap(last'.out).id = Some(Len(moved'))
         /\ Len(moved') = Len(moved) + 1
    ELSE /\ Len(tasks') = Len(tasks)
         /\ Len(moved') = Len(moved)
         /\ \A i \in 1..Len(tasks) : tasks'[i].id = tasks[i].id

\* C3: from an empty repository the k-th successful add_task assigns id k; the
\* task stored at position i (0-based) has id i+1, so ids are pairwise distinct
\* and increase in insertion order; a failing add_task consumes no id.
\* (moved grows by one entry on each successful add_task, so Len(moved) counts them.)
C3_IdsInInsertionOrder == []C3_Ids /\ []C3_Calls /\ [][C3_Step]_vars

\* the third successful add_task has just returned the task with id 3
C3_Witness ==
    /\ last.op = "add_task"
    /\ last.ok
    /\ Len(tasks) = 3
    /\ unwrap(last.out).id = Some(3)
    /\ tasks[3] = unwrap(last.out)

\* the stored tasks whose name equals `name` when both are lower-cased
SameName(name) ==
    {i \in 1..Len(tasks) : to_lowercase(tasks[i].name) = to_lowercase(name)}

DuplicateName(n) == Format("Task with name '{}' already exists", n)

C4_Calls ==
    \A in \in AddInputs : \A t \in Clock :
        LET r == svc_add_task(tasks, in[1], in[2], t) IN
        SameName(in[1]) # {} =>
            /\ ~r.res.ok
            /\ \E i \in SameName(in[1]) : r.res.err = DuplicateName(tasks[i].name)
            /\ r.tasks = tasks

C4_Step ==
    last'.op = "add_task" =>
        IF SameName(last'.name) # {}
        THEN /\ ~last'.ok
             /\ \E i \in SameName(last'.name) :
                    last'.err = DuplicateName(tasks[i].name)
             /\ tasks' = tasks
        ELSE last'.err.fmt # DuplicateName(<< >>).fmt

\* C4: add_task of a name equal, when lower-cased, to the name of a stored task
\* fails with "Task with name '<n>' already exists", <n> being the stored
\* task's name as stored, and leaves the collection unchanged.
C4_DuplicateNameRejected == []C4_Calls /\ [][C4_Step]_vars

\* an add_task has just been rejected for a name that differs from the stored
\* one only by case; the error carries the stored name
C4_Witness ==
    /\ last.op = "add_task"
    /\ ~last.ok
    /\ last.err.fmt = "Task with name '{}' already exists"
    /\ last.err.arg # last.name
    /\ \E i \in 1..Len(tasks) : tasks[i].name = last.err.arg

Never == [doing |-> 0, done |-> 0]
Both == [doing |-> 1, done |-> 1]

C5_Counts ==
    \A i \in 1..Len(moved) : moved[i].doing <= 1 /\ moved[i].done <= 1

C5_Fresh ==
    \A i \in 1..Len(tasks) :
        (tasks[i].status = Todo /\ moved[i] = Never) =>
            \A t1 \in Clock : \A t2 \in t1..MaxClock : \A t3 \in t2..MaxClock :
                LET id == unwrap(tasks[i].id)
                    r1 == svc_move_to_doing(tasks, id, t1)
                    r2 == svc_move_to_done(r1.tasks, id, t2)
                IN  /\ r1.res.ok
                    /\ r2.res.ok
                    /\ ~svc_move_to_doing(r2.tasks, id, t3).res.ok
                    /\ ~svc_move_to_done(r2.tasks, id, t3).res.ok

C5_Spent ==
    \A i \in 1..Len(tasks) :
        moved[i] = Both =>
            \A t \in Clock :
                /\ ~svc_move_to_doing(tasks, unwrap(tasks[i].id), t).res.ok
                /\ ~svc_move_to_done(tasks, unwrap(tasks[i].id), t).res.ok

C5_Step ==
    \A i \in 1..Len(moved) :
        /\ i <= Len(moved')
        /\ moved'[i].doing >= moved[i].doing
        /\ moved'[i].done >= moved[i].done
        /\ (moved[i] = Both /\ tasks[i].id = Some(last'.id)
              /\ last'.op \in {"move_to_doing", "move_to_done"}) => ~last'.ok

\* C5: for a freshly added task with id i, move_to_doing(i) and then
\* move_to_done(i) each succeed, after which every further move_to_doing(i) or
\* move_to_done(i) fails; over any sequence of Service calls a task has at most
\* one successful move_to_doing and at most one successful move_to_done.
C5_EachTransitionOnce ==
    []C5_Counts /\ []C5_Fresh /\ []C5_Spent /\ [][C5_Step]_vars

\* a task went through both transitions and a further move of it has just failed
C5_Witness ==
    /\ last.op \in {"move_to_doing", "move_to_done"}
    /\ ~last.ok
    /\ \E i \in 1..Len(tasks) :
          tasks[i].id = Some(last.id) /\ moved[i] = Both

NotFoundErrors == {Msg("No task found"), Msg("Task not found")}

\* the call is refused for the task's state and leaves the vector `ts` as it was
Rejected(r, ts) ==
    /\ ~r.res.ok
    /\ r.res.err \notin NotFoundErrors
    /\ r.tasks = ts

C6_Calls ==
    \A i \in 1..Len(tasks) : \A t \in Clock :
        LET id == unwrap(tasks[i].id) IN
        /\ tasks[i].status # Doing =>
              /\ Rejected(svc_move_to_done(tasks, id, t), tasks)
              /\ Rejected(repo_move_to_done(tasks, id, t), tasks)
        /\ tasks[i].status # Todo =>
              /\ Rejected(svc_move_to_doing(tasks, id, t), tasks)
              /\ Rejected(repo_move_to_doing(tasks, id, t), tasks)

C6_Step ==
    /\ (last'.op \in {"move_to_doing", "move_to_done"} /\ ~last'.ok)
          => tasks' = tasks
    /\ \A i \in 1..Len(tasks) :
          /\ (last'.op = "move_to_done" /\ tasks[i].id = Some(last'.id)
                /\ tasks[i].status # Doing) => ~last'.ok
          /\ (last'.op = "move_to_doing" /\ tasks[i].id = Some(last'.id)
                /\ tasks[i].status # Todo) => ~last'.ok

\* C6: move_to_done on a task whose status is not Doing and move_to_doing on a
\* task whose status is not Todo, through the Service or the Repository, return
\* an error, and the task's status and updated_at and every other stored task
\* are as before the call.
C6_RejectedTransitionChangesNothing == []C6_Calls /\ [][C6_Step]_vars

\* move_to_done has just been refused for a task that is still Todo and has
\* never been updated
C6_Witness ==
    /\ last.op = "move_to_done"
    /\ ~last.ok
    /\ \E i \in 1..Len(tasks) :
          /\ tasks[i].id = Some(last.id)
          /\ tasks[i].status = Todo
          /\ tasks[i].updated_at = None

Absent(id) == \A i \in 1..Len(tasks) : tasks[i].id # Some(id)

C7_Calls ==
    \A id \in IdInputs : \A t \in Clock :
        /\ (id = 0 \/ id > Len(tasks)) => Absent(id)
        /\ Absent(id) =>
              /\ svc_move_to_doing(tasks, id, t).res = Err(Msg("No task found"))
              /\ svc_move_to_doing(tasks, id, t).tasks = tasks
              /\ svc_move_to_done(tasks, id, t).res = Err(Msg("No task found"))
              /\ svc_move_to_done(tasks, id, t).tasks = tasks
              /\ repo_move_to_doing(tasks, id, t)
                    = [tasks |-> tasks, res |-> Err(Msg("Task not found"))]
              /\ repo_move_to_done(tasks, id, t)
                    = [tasks |-> tasks, res |-> Err(Msg("Task not found"))]

C7_Step ==
    (last'.op \in {"move_to_doing", "move_to_done"} /\ Absent(last'.id)) =>
        /\ ~last'.ok
        /\ last'.err = Msg("No task found")
        /\ tasks' = tasks

\* C7: TaskService::move_to_doing / move_to_done with an id no stored task has
\* (id 0 and ids above the number of stored tasks included) return "No task
\* found" and leave the collection unchanged; the repository's move_to_doing /
\* move_to_done return "Task not found" and change nothing.
C7_UnknownIdNotFound == []C7_Calls /\ [][C7_Step]_vars

\* a move with an id above the number of stored tasks has just been answered
\* "No task found" by a Service that holds tasks
C7_Witness ==
    /\ last.op \in {"move_to_doing", "move_to_done"}
    /\ Len(tasks) >= 1
    /\ last.id > Len(tasks)
    /\ last.err = Msg("No task found")

C8_Calls ==
    /\ \A i \in 1..Len(tasks) : tasks[i].name # EmptyName
    /\ \A in \in AddInputs : \A t \in Clock :
          in[1] = EmptyName =>
              svc_add_task(tasks, in[1], in[2], t)
                  = [tasks |-> tasks,
                     res |-> Err(Msg("Task name is required")),
                     calls |-> << >>]

C8_Step ==
    (last'.op = "add_task" /\ last'.name = EmptyName) =>
        /\ ~last'.ok
        /\ last'.err = Msg("Task name is required")
        /\ last'.calls = << >>
        /\ tasks' = tasks

\* C8: TaskService::add_task with an empty name fails with "Task name is
\* required" whatever the repository holds, without calling the repository and
\* without storing anything; no stored task ever has an empty name.
C8_EmptyNameRejected == []C8_Calls /\ [][C8_Step]_vars

\* add_task("") has just been refused by a Service that already holds tasks
C8_Witness ==
    /\ last.op = "add_task"
    /\ last.name = EmptyName
    /\ last.err = Msg("Task name is required")
    /\ last.calls = << >>
    /\ Len(tasks) >= 1

\* the positions of the stored tasks a listing by `s` is to return
Matching(s) ==
    IF s = StatusNone
    THEN 1..Len(tasks)
    ELSE {i \in 1..Len(tasks) : tasks[i].status = s}

\* the k-th smallest element of a set of positions
Nth(M, k) == CHOOSE i \in M : Cardinality({j \in M : j <= i}) = k

\* r holds exactly the tasks at the positions M, each once, in insertion order
ListsExactly(r, M) ==
    /\ Len(r) = Cardinality(M)
    /\ \A k \in 1..Len(r) : r[k] = tasks[Nth(M, k)]

C9_Calls ==
    \A s \in Status :
        /\ ListsExactly(list_by_status(tasks, s), Matching(s))
        /\ ListsExactly(svc_list_by_status(tasks, s), Matching(s))

C9_Step ==
    last'.op = "list_by_status" =>
        /\ ListsExactly(last'.out, Matching(last'.status))
        /\ UNCHANGED <<tasks, now, moved>>

\* C9: in every reachable state list_by_status(s), s in {Todo, Doing, Done},
\* returns exactly the stored tasks of status s, each once, in insertion order;
\* list_by_status(Status::None) returns all stored tasks in insertion order;
\* list_by_status changes no state.
C9_ListByStatus == []C9_Calls /\ [][C9_Step]_vars

\* a listing has just returned the first and the third of three stored tasks,
\* leaving out the second
C9_Witness ==
    /\ last.op = "list_by_status"
    /\ last.status # StatusNone
    /\ Len(tasks) = 3
    /\ last.out = <<tasks[1], tasks[3]>>

\* a name in other letter cases: as given, all lower case, all upper case
upper_char(c) ==
    CASE c = "t" -> "T"
      [] c = "a" -> "A"
      [] c = "s" -> "S"
      [] c = "k" -> "K"
      [] OTHER -> c

CaseVariants(n) == {n, to_lowercase(n), [i \in 1..Len(n) |-> upper_char(n[i])]}

\* looking `v` up in the vector `ts` yields the task `added`, stored last
FindsAdded(ts, v, added) ==
    /\ find_by_name(ts, v) = Some(Len(ts))
    /\ ts[Len(ts)] = added

C11_Calls ==
    \A in \in AddInputs : \A t \in Clock :
        LET r == svc_add_task(tasks, in[1], in[2], t) IN
        r.res.ok =>
            LET added == unwrap(r.res.out) IN
            /\ added.name = in[1]
            /\ added.description = in[2]
            /\ added.status = Todo
            /\ added.id = Some(Len(tasks) + 1)
            /\ \A v \in CaseVariants(in[1]) : FindsAdded(r.tasks, v, added)

C11_Step ==
    (last'.op = "add_task" /\ last'.ok) =>
        LET added == unwrap(last'.out) IN
        /\ added.name = last'.name
        /\ added.status = Todo
        /\ is_some(added.id)
        /\ \A v \in CaseVariants(last'.name) : FindsAdded(tasks', v, added)

\* C11: whenever add_task(n, d) succeeds, find_by_name of n in any letter case
\* right afterwards returns the task just added: name exactly n, description
\* exactly d, status Todo and the id add_task assigned.
C11_AddThenFindByName == []C11_Calls /\ [][C11_Step]_vars

\* a name with upper-case letters has just been added to a repository that
\* holds other tasks, and is found under its lower-case spelling
C11_Witness ==
    /\ last.op = "add_task"
    /\ last.ok
    /\ last.name = TASK1
    /\ Len(tasks) >= 2
    /\ unwrap(last.out).name = TASK1
    /\ find_by_name(tasks, task1) = Some(Len(tasks))
    /\ tasks[Len(tasks)] = unwrap(last.out)

\* the last call was refused although a task with the id it named is stored
RefusedForState(op) ==
    /\ last.op = op
    /\ ~last.ok
    /\ \E i \in 1..Len(tasks) : tasks[i].id = Some(last.id)

\* C16: when TaskService refuses a transition because of the task's state the
\* error is the one the service tests assert: for move_to_doing "Task must be
\* in the Todo state before marking as in progress", for move_to_done "Task
\* must be in progress state before marking as Done".
C16_ErrorsTheTestsAssert ==
    /\ RefusedForState("move_to_doing") =>
          last.err = Msg("Task must be in the Todo state before marking as in progress")
    /\ RefusedForState("move_to_done") =>
          last.err = Msg("Task must be in progress state before marking as Done")

C21_NoneIffTodo ==
    \A i \in 1..Len(tasks) :
        tasks[i].updated_at = None <=> tasks[i].status = Todo

\* the call `r` of a transition of `id` at time `t`: when it succeeds the task's
\* updated_at is t, when it fails the vector is as before
StampsAt(r, id, t) ==
    IF r.res.ok
    THEN \E i \in 1..Len(tasks) :
            /\ tasks[i].id = Some(id)
            /\ r.tasks[i].updated_at = Some(t)
            /\ \A j \in 1..Len(tasks) :
                  j # i => r.tasks[j].updated_at = tasks[j].updated_at
    ELSE r.tasks = tasks

C21_Calls ==
    /\ \A id \in IdInputs : \A t \in Clock :
          /\ StampsAt(svc_move_to_doing(tasks, id, t), id, t)
          /\ StampsAt(svc_move_to_done(tasks, id, t), id, t)
    /\ \A in \in AddInputs : \A t \in Clock :
          LET r == svc_add_task(tasks, in[1], in[2], t) IN
          IF r.res.ok
          THEN /\ unwrap(r.res.out).updated_at = None
               /\ r.tasks[Len(r.tasks)].updated_at = None
               /\ \A j \in 1..Len(tasks) :
                     r.tasks[j].updated_at = tasks[j].updated_at
          ELSE r.tasks = tasks

C21_Step ==
    /\ now' >= now
    /\ \A i \in 1..Len(tasks) :
          IF Moving("move_to_doing", i) \/ Moving("move_to_done", i)
          THEN tasks'[i].updated_at = Some(now')
          ELSE tasks'[i].updated_at = tasks[i].updated_at
    /\ \A i \in (Len(tasks) + 1)..Len(tasks') : tasks'[i].updated_at = None

SameButStatus(a, b) ==
    b = [a EXCEPT !.status = b.status, !.updated_at = b.updated_at]

\* the vector `ts` is `tasks` with at most the status and updated_at of the
\* task of `id` changed
MovedOnly(ts, id) ==
    /\ Len(ts) = Len(tasks)
    /\ \A j \in 1..Len(tasks) :
          IF tasks[j].id = Some(id)
          THEN SameButStatus(tasks[j], ts[j])
          ELSE ts[j] = tasks[j]

C22_Calls ==
    /\ \A id \in IdInputs : \A t \in Clock :
          /\ MovedOnly(svc_move_to_doing(tasks, id, t).tasks, id)
          /\ MovedOnly(svc_move_to_done(tasks, id, t).tasks, id)
          /\ MovedOnly(repo_move_to_doing(tasks, id, t).tasks, id)
          /\ MovedOnly(repo_move_to_done(tasks, id, t).tasks, id)
    /\ \A in \in AddInputs : \A t \in Clock :
          LET r == svc_add_task(tasks, in[1], in[2], t) IN
          /\ Len(r.tasks) = IF r.res.ok THEN Len(tasks) + 1 ELSE Len(tasks)
          /\ \A j \in 1..Len(tasks) : r.tasks[j] = tasks[j]

C22_Step ==
    /\ Len(tasks') = IF last'.op = "add_task" /\ last'.ok
                     THEN Len(tasks) + 1
                     ELSE Len(tasks)
    /\ \A i \in 1..Len(tasks) :
          IF Moving("move_to_doing", i) \/ Moving("move_to_done", i)
          THEN SameButStatus(tasks[i], tasks'[i])
          ELSE tasks'[i] = tasks[i]

\* C22: a successful move_to_doing(id) or move_to_done(id) changes only the
\* status and updated_at of the task with that id: its id, name, description
\* and created_at, every other stored task, and the length and order of the
\* collection are unchanged; the length never decreases, grows by exactly one
\* on each successful add_task and by zero on every other operation.
C22_MovesChangeOnlyStatus == []C22_Calls /\ [][C22_Step]_vars

\* the second of three tasks has just been moved to Doing; the first and the
\* third are still as constructed
C22_Witness ==
    /\ last.op = "move_to_doing"
    /\ last.ok
    /\ last.id = 2
    /\ Len(tasks) = 3
    /\ tasks[2].status = Doing
    /\ tasks[1].status = Todo
    /\ tasks[3].status = Todo
    /\ \A i \in 1..3 : tasks[i].id = Some(i)

\* the errors only the Repository's transitions produce
RepositoryErrors ==
    { Msg("Task not found"),
      Msg("task must be in Todo state to move to in progress"),
      Msg("task must be in progress to mark as complete") }

C23_Calls ==
    \A id \in IdInputs : \A t \in Clock :
        LET task == find_by_id(tasks, id)
            doing == svc_move_to_doing(tasks, id, t)
            done == svc_move_to_done(tasks, id, t)
        IN  /\ is_some(task) =>
                 /\ before_move_to_doing(tasks[unwrap(task)]).ok
                       => repo_move_to_doing(tasks, id, t).res.ok
                 /\ before_move_to_done(tasks[unwrap(task)]).ok
                       => repo_move_to_done(tasks, id, t).res.ok
            /\ doing.res.err \notin RepositoryErrors
            /\ done.res.err \notin RepositoryErrors
            /\ ~doing.res.ok => doing.tasks = tasks
            /\ ~done.res.ok => done.tasks = tasks

C23_Step ==
    last'.op \in {"move_to_doing", "move_to_done"} =>
        /\ last'.err \notin RepositoryErrors
        /\ Len(last'.calls) = 2 => last'.ok
        /\ ~last'.ok => tasks' = tasks

\* C23: whenever the Service's pre-condition check on the task found by
\* find_by_id passes, the Repository transition it then calls succeeds:
\* TaskService::move_to_doing and move_to_done never return the Repository's
\* own errors and never fail after having changed state.
C23_RepositoryCheckNeverFails == []C23_Calls /\ [][C23_Step]_vars

\* the Service has just passed a move_to_done on to the Repository, which
\* accepted it
C23_Witness ==
    /\ last.op = "move_to_done"
    /\ last.calls = <<"find_by_id", "move_to_done">>
    /\ last.ok
    /\ \E i \in 1..Len(tasks) :
          tasks[i].id = Some(last.id) /\ tasks[i].status = Done

C25_ById ==
    \A id \in IdInputs :
        LET found == find_by_id(tasks, id) IN
        /\ is_some(found) <=> id \in 1..Len(tasks)
        /\ is_some(found) =>
              /\ unwrap(found) = id
              /\ {i \in 1..Len(tasks) : tasks[i].id = Some(id)} = {id}
        /\ svc_find_by_id(tasks, id)
              = IF id \in 1..Len(tasks) THEN Some(tasks[id]) ELSE None

C25_ByName ==
    \A in \in AddInputs : \A name \in CaseVariants(in[1]) :
        LET found == find_by_name(tasks, name) IN
        IF SameName(name) = {}
        THEN found = None
        ELSE /\ Cardinality(SameName(name)) = 1
             /\ is_some(found)
             /\ unwrap(found) \in SameName(name)

C25_Step ==
    last'.op = "find_by_id" =>
        /\ last'.out = IF last'.id \in 1..Len(tasks)
                       THEN Some(tasks[last'.id])
                       ELSE None
        /\ tasks' = tasks

\* C25: in every state reachable through the Service with n tasks stored,
\* find_by_id(id) returns a task exactly when 1 <= id <= n, the task at position
\* id-1 (0-based), the only stored task with that id; find_by_name(name) returns
\* the only stored task whose lower-cased name equals the lower-cased argument,
\* or nothing when there is none.
C25_FindReturnsTheOnlyMatch == []C25_ById /\ []C25_ByName /\ [][C25_Step]_vars

\* find_by_id(2) has just returned the second of three stored tasks, whose
\* name is found in upper case too
C25_Witness ==
    /\ last.op = "find_by_id"
    /\ last.id = 2
    /\ Len(tasks) = 3
    /\ last.out = Some(tasks[2])
    /\ tasks[2].name = task1
    /\ find_by_name(tasks, TASK1) = Some(2)

(***************************************************************************)
(* A caller of the TaskRepository itself (repository.rs), which may pass   *)
(* any Task value: every field of Task is public.  The tasks passed are    *)
(* built by Task::new and then given an id and a status.                   *)
(***************************************************************************)
RepoNames == {task1, TASK1, task_2}
RepoIds == {None, Some(1), Some(2)}

RepoTaskInputs(t) ==
    { [Task_new(n, "description1", t) EXCEPT !.id = i, !.status = s] :
          n \in RepoNames, i \in RepoIds, s \in Status }

\* the number of tasks the repository holds before its caller stops adding
MaxRepoTasks == MaxTasks - 1

Repo_add_task(task) ==
    LET r == repo_add_task(tasks, task) IN
    /\ Len(r.tasks) <= MaxRepoTasks
    /\ tasks' = r.tasks
    /\ now' = task.created_at
    /\ last' = Call("repo.add_task", 0, task.name, StatusNone, Some(task),
                    r.res, << >>)
    /\ UNCHANGED moved

Repo_update(task) ==
    LET r == repo_update(tasks, task) IN
    /\ tasks' = r.tasks
    /\ now' = task.created_at
    /\ last' = Call("repo.update", 0, task.name, StatusNone, Some(task),
                    r.res, << >>)
    /\ UNCHANGED moved

\* move_to_doing(id) with `t` the reading of the clock it makes
Repo_move_to_doing_at(id, t) ==
    LET r == repo_move_to_doing(tasks, id, t) IN
    /\ tasks' = r.tasks
    /\ now' = IF r.res.ok THEN t ELSE now
    /\ last' = Call("repo.move_to_doing", id, << >>, StatusNone, None,
                    r.res, << >>)
    /\ UNCHANGED moved

Repo_move_to_doing(id) == \E t \in Clock : Repo_move_to_doing_at(id, t)

\* move_to_done(id) with `t` the reading of the clock it makes
Repo_move_to_done_at(id, t) ==
    LET r == repo_move_to_done(tasks, id, t) IN
    /\ tasks' = r.tasks
    /\ now' = IF r.res.ok THEN t ELSE now
    /\ last' = Call("repo.move_to_done", id, << >>, StatusNone, None,
                    r.res, << >>)
    /\ UNCHANGED moved

Repo_move_to_done(id) == \E t \in Clock : Repo_move_to_done_at(id, t)

NextRepo ==
    \/ \E t \in Clock : \E task \in RepoTaskInputs(t) :
          Repo_add_task(task) /\ UNCHANGED <<pc, mem>>
    \/ \E t \in Clock : \E task \in RepoTaskInputs(t) :
          Repo_update(task) /\ UNCHANGED <<pc, mem>>
    \/ \E id \in IdInputs : Repo_move_to_doing(id) /\ UNCHANGED <<pc, mem>>
    \/ \E id \in IdInputs : Repo_move_to_done(id) /\ UNCHANGED <<pc, mem>>

SpecRepo == Init /\ [][NextRepo]_vars

\* C2: in every state reachable by TaskRepository operations (add_task, update,
\* move_to_doing, move_to_done) from an empty repository, no two stored tasks
\* have names that are equal when lower-cased.
C2_UniqueNames ==
    \A i, j \in 1..Len(tasks) :
        i # j => to_lowercase(tasks[i].name) # to_lowercase(tasks[j].name)

\* C12: TaskRepository::add_task validates the "new task" pre-condition: a task
\* whose name is empty or whose status is not Todo is rejected and not stored,
\* so every task has status Todo and a non-empty name when it gets its id.
C12_AddValidatesNewTask ==
    last.op = "repo.add_task" =>
        /\ ~before_add(unwrap(last.arg)).ok => ~last.ok
        /\ last.ok => /\ unwrap(last.out).status = Todo
                      /\ unwrap(last.out).name # EmptyName

\* C13: in every state reachable by the Repository operations every stored task
\* has status Todo, Doing or Done: the sentinel Status::None is never stored.
C13_SentinelNeverStored ==
    \A i \in 1..Len(tasks) : tasks[i].status \in {Todo, Doing, Done}

\* the changes of status the lifecycle forbids: backward, or Todo to Done
Forbidden == {<<Done, Doing>>, <<Done, Todo>>, <<Doing, Todo>>, <<Todo, Done>>}

C19_Step ==
    \A i \in 1..Len(tasks) : \A j \in 1..Len(tasks') :
        tasks'[j].id = tasks[i].id =>
            <<tasks[i].status, tasks'[j].status>> \notin Forbidden

\* C19: over any sequence of TaskRepository operations, update and add_task of
\* arbitrary Task values included, the status of the stored task with a given
\* id never moves backward (Done to Doing or Todo, Doing to Todo) and never
\* goes from Todo to Done without being Doing in between.
C19_ForwardOnlyAtRepository == [][C19_Step]_vars

(***************************************************************************)
(* A caller of the TaskRepository over a stretch of time: the tasks it     *)
(* passes are built by Task::new at the time of the call and, for update,  *)
(* given the id of the task to replace.                                    *)
(***************************************************************************)
\* the last instant of the clock this caller reads
MaxRepoClock == MaxClock + 1
RepoClock == now..MaxRepoClock

TimedTaskInputs(t) ==
    { [Task_new(n, "description1", t) EXCEPT !.id = i] :
          n \in {task1, task_2}, i \in {None, Some(2)} }

NextRepoClock ==
    \/ \E t \in RepoClock : \E task \in TimedTaskInputs(t) :
          Repo_add_task(task) /\ UNCHANGED <<pc, mem>>
    \/ \E t \in RepoClock : \E task \in TimedTaskInputs(t) :
          Repo_update(task) /\ UNCHANGED <<pc, mem>>
    \/ \E id \in IdInputs : \E t \in RepoClock :
          Repo_move_to_doing_at(id, t) /\ UNCHANGED <<pc, mem>>
    \/ \E id \in IdInputs : \E t \in RepoClock :
          Repo_move_to_done_at(id, t) /\ UNCHANGED <<pc, mem>>

SpecRepoClock == Init /\ [][NextRepoClock]_vars

C14_Ordered ==
    \A i \in 1..Len(tasks) :
        is_some(tasks[i].updated_at) =>
            tasks[i].created_at <= unwrap(tasks[i].updated_at)

C14_CreatedAtFixed ==
    \A i \in 1..Len(tasks) : \A j \in 1..Len(tasks') :
        tasks'[j].id = tasks[i].id => tasks'[j].created_at = tasks[i].created_at

\* C14: with a clock that never goes backward, in every state reachable by the
\* Repository operations a stored task whose updated_at is set has
\* created_at <= updated_at, and the created_at of a stored task never changes.
C14_Timestamps == []C14_Ordered /\ [][C14_CreatedAtFixed]_vars

AllHaveId(ts) == \A i \in 1..Len(ts) : is_some(ts[i].id)

C15_Constructed ==
    \A in \in AddInputs : \A t \in RepoClock :
        LET task == Task_new(in[1], in[2], t) IN
        /\ task.status = Todo
        /\ task.id = None
        /\ task.updated_at = None

C15_Calls ==
    \A t \in RepoClock : \A task \in TimedTaskInputs(t) :
        LET added == repo_add_task(tasks, task) IN
        /\ AllHaveId(added.tasks)
        /\ added.res.ok => is_some(unwrap(added.res.out).id)
        /\ AllHaveId(repo_update(tasks, task).tasks)

C15_Step ==
    /\ \A i \in 1..Len(tasks) : tasks'[i].id = tasks[i].id
    /\ (last'.op = "repo.add_task" /\ last'.ok) =>
          /\ is_some(unwrap(last'.out).id)
          /\ tasks'[Len(tasks')] = unwrap(last'.out)

WithId(id) == {i \in 1..Len(tasks) : tasks[i].id = id}

\* `ts` is the vector `tasks` with the task of task.id, if any, replaced by task
ReplacedById(ts, task) ==
    /\ Len(ts) = Len(tasks)
    /\ Cardinality(WithId(task.id)) <= 1
    /\ \A i \in 1..Len(tasks) :
          IF i \in WithId(task.id)
          THEN ts[i] = task /\ ts[i].id = tasks[i].id
          ELSE ts[i] = tasks[i]
    /\ WithId(task.id) = {} => ts = tasks

C17_Calls ==
    \A t \in RepoClock : \A task \in TimedTaskInputs(t) :
        LET r == repo_update(tasks, task) IN
        /\ r.res = Ok(<< >>)
        /\ ReplacedById(r.tasks, task)

C17_Step ==
    last'.op = "repo.update" =>
        /\ last'.ok
        /\ last'.err = NoErr
        /\ ReplacedById(tasks', unwrap(last'.arg))

\* C17: update(task) replaces in full the stored task whose id equals task.id
\* and nothing else: the length, the order and every other stored task are
\* unchanged and the replaced entry keeps its position and id; when no stored
\* task has that id (task.id = None included) update changes nothing and
\* reports no error.
C17_UpdateReplacesById == []C17_Calls /\ [][C17_Step]_vars

\* update has just replaced the second stored task by the task passed in, whose
\* name is that of the first: the first is as it was
C17_Witness ==
    /\ last.op = "repo.update"
    /\ Len(tasks) = 2
    /\ tasks[2] = unwrap(last.arg)
    /\ tasks[2].id = Some(2)
    /\ tasks[2].name = task1
    /\ tasks[1].name = task1
    /\ tasks[1].id = Some(1)

(***************************************************************************)
(* A scripted caller of TaskService: it makes the calls of Script in order *)
(* and may look at the Service (list_by_status, find_by_id, the            *)
(* repository's find_by_name) at any point; once the script is through it  *)
(* may try move_to_done(1).                                                *)
(***************************************************************************)
Script ==
    << [op |-> "add_task", name |-> task1, desc |-> "description1", id |-> 0],
       [op |-> "add_task", name |-> task_2, desc |-> "description task 2", id |-> 0],
       [op |-> "add_task", name |-> task_3, desc |-> "description task 3", id |-> 0],
       [op |-> "move_to_doing", name |-> << >>, desc |-> "", id |-> 2],
       [op |-> "move_to_done", name |-> << >>, desc |-> "", id |-> 2],
       [op |-> "move_to_doing", name |-> << >>, desc |-> "", id |-> 3] >>

NameInputs == {in[1] : in \in AddInputs}

Repo_find_by_name(name) ==
    LET t == find_by_name(tasks, name) IN
    /\ last' = Call("repo.find_by_name", 0, name, StatusNone, None,
                    Ok(IF is_some(t) THEN Some(tasks[unwrap(t)]) ELSE None),
                    << >>)
    /\ UNCHANGED <<tasks, now, moved>>

NextScenario ==
    \/ /\ pc < Len(Script)
       /\ Script[pc + 1].op = "add_task"
       /\ Svc_add_task(Script[pc + 1].name, Script[pc + 1].desc)
       /\ pc' = pc + 1
       /\ UNCHANGED mem
    \/ /\ pc < Len(Script)
       /\ Script[pc + 1].op = "move_to_doing"
       /\ Svc_move_to_doing(Script[pc + 1].id)
       /\ pc' = pc + 1
       /\ UNCHANGED mem
    \/ /\ pc < Len(Script)
       /\ Script[pc + 1].op = "move_to_done"
       /\ Svc_move_to_done(Script[pc + 1].id)
       /\ pc' = pc + 1
       /\ UNCHANGED mem
    \/ \E s \in Status : Svc_list_by_status(s) /\ UNCHANGED <<pc, mem>>
    \/ \E id \in IdInputs : Svc_find_by_id(id) /\ UNCHANGED <<pc, mem>>
    \/ \E n \in NameInputs : Repo_find_by_name(n) /\ UNCHANGED <<pc, mem>>
    \/ /\ pc = Len(Script)
       /\ Svc_move_to_done(1)
       /\ UNCHANGED <<pc, mem>>

SpecScenario == Init /\ [][NextScenario]_vars

\* what the vector holds after the first k calls of the script
ScriptNames == <<task1, task_2, task_3>>
ScriptDescriptions ==
    <<"description1", "description task 2", "description task 3">>
ScriptStatus ==
    << <<Todo>>, <<Todo, Todo>>, <<Todo, Todo, Todo>>, <<Todo, Doing, Todo>>,
       <<Todo, Done, Todo>>, <<Todo, Done, Doing>> >>
StatusAfter(k) == IF k = 0 THEN << >> ELSE ScriptStatus[k]

C10_Progress ==
    /\ Len(tasks) = Len(StatusAfter(pc))
    /\ \A i \in 1..Len(tasks) :
          /\ tasks[i].id = Some(i)
          /\ tasks[i].name = ScriptNames[i]
          /\ tasks[i].description = ScriptDescriptions[i]
          /\ tasks[i].status = StatusAfter(pc)[i]

C10_Afterwards ==
    pc = Len(Script) =>
        /\ list_by_status(tasks, Todo) = <<tasks[1]>>
        /\ list_by_status(tasks, Doing) = <<tasks[3]>>
        /\ list_by_status(tasks, Done) = <<tasks[2]>>
        /\ find_by_name(tasks, TASK1) = Some(1)
        /\ \A t \in Clock : Rejected(svc_move_to_done(tasks, 1, t), tasks)

C10_Step ==
    /\ pc' = pc + 1 => last'.ok
    /\ (pc' = pc /\ last'.op = "move_to_done") =>
          /\ last'.id = 1
          /\ ~last'.ok
          /\ last'.err \notin NotFoundErrors
          /\ tasks' = tasks
          /\ tasks'[1].status = Todo
    /\ (pc' = Len(Script) /\ last'.op = "list_by_status") =>
          last'.out = CASE last'.status = Todo -> <<tasks[1]>>
                        [] last'.status = Doing -> <<tasks[3]>>
                        [] last'.status = Done -> <<tasks[2]>>
                        [] OTHER -> tasks
    /\ (pc' = Len(Script) /\ last'.op = "repo.find_by_name"
          /\ last'.name = TASK1) => last'.out = Some(tasks[1])

\* C10: on an empty Service, add "task1", "task 2", "task 3" (ids 1, 2, 3 in that
\* order), move id 2 to Doing then Done, move id 3 to Doing: all six calls
\* succeed; afterwards list_by_status(Todo) = [task1], list_by_status(Doing) =
\* [task 3], list_by_status(Done) = [task 2], find_by_name("TASK1") returns
\* task1, and move_to_done(1) fails with a state error leaving task1 in Todo.
C10_Scenario == []C10_Progress /\ []C10_Afterwards /\ [][C10_Step]_vars

\* the script is through and move_to_done(1) has just been refused
C10_Witness ==
    /\ pc = Len(Script)
    /\ last.op = "move_to_done"
    /\ last.id = 1
    /\ ~last.ok
    /\ tasks[1].status = Todo
    /\ tasks[2].status = Done
    /\ tasks[3].status = Doing


(***************************************************************************)
(* lib.rs: App, the task list with its operations in one struct.  A Task   *)
(* of lib.rs has a plain u32 id, given at construction, and its Status has *)
(* no None.  Vec positions are 0-based here, as in the code.  A panic      *)
(* unwinds the calling thread: pc, 0 while the caller runs, becomes 1 and  *)
(* no call follows.                                                        *)
(***************************************************************************)
App_Task_new(id, name, description, t) ==
    [ id |-> id,
      name |-> name,
      description |-> description,
      status |-> Todo,
      created_at |-> t,
      updated_at |-> None ]

\* Iterator::position: the 0-based index of the first match
position(matches) ==
    IF matches = {}
    THEN None
    ELSE Some((CHOOSE i \in matches : \A j \in matches : i <= j) - 1)

find_task_by_name(ts, name) ==
    position({i \in 1..Len(ts) : to_lowercase(ts[i].name) = to_lowercase(name)})

find_task_by_id(ts, id) ==
    position({i \in 1..Len(ts) : ts[i].id = id})

\* Vec::get / indexing at the 0-based position pos
at(ts, pos) == ts[pos + 1]

app_add_task(ts, name, desc, t) ==
    LET pos == find_task_by_name(ts, name) IN
    IF is_some(pos) /\ unwrap(pos) < Len(ts)
    THEN [tasks |-> ts,
          res |-> Err(Format("The task '{}' already exists",
                             at(ts, unwrap(pos)).name)),
          panic |-> FALSE]
    ELSE LET id == Len(ts) + 1 IN
         [tasks |-> Append(ts, App_Task_new(id, name, desc, t)),
          res |-> Ok(<<id>>),
          panic |-> FALSE]

app_move_to_doing(ts, id, t) ==
    LET pos == find_task_by_id(ts, id) IN
    IF is_none(pos)
    THEN [tasks |-> ts,
          res |-> Err(Msg("called Option::unwrap() on a None value")),
          panic |-> TRUE]
    ELSE IF at(ts, unwrap(pos)).status = Done
    THEN [tasks |-> ts,
          res |-> Err(Format("The task of ID '{}' is already completed", <<id>>)),
          panic |-> FALSE]
    ELSE LET after == [ts EXCEPT ![unwrap(pos) + 1].status = Doing,
                                 ![unwrap(pos) + 1].updated_at = Some(t)] IN
         [tasks |-> after,
          res |-> Ok(<<at(after, unwrap(pos))>>),
          panic |-> FALSE]

app_move_to_done(ts, id, t) ==
    LET pos == find_task_by_id(ts, id) IN
    IF is_none(pos)
    THEN [tasks |-> ts,
          res |-> Err(Format("The task '{}' does not exist", <<id>>)),
          panic |-> FALSE]
    ELSE IF at(ts, unwrap(pos)).status # Doing
    THEN [tasks |-> ts,
          res |-> Err(Format("The task of ID '{}' not currently in progress",
                             <<id>>)),
          panic |-> FALSE]
    ELSE LET after == [ts EXCEPT ![unwrap(pos) + 1].status = Done,
                                 ![unwrap(pos) + 1].updated_at = Some(t)] IN
         [tasks |-> after,
          res |-> Ok(<<at(after, unwrap(pos))>>),
          panic |-> FALSE]

App_add_task(name, desc) ==
    \E t \in Clock :
        LET r == app_add_task(tasks, name, desc, t) IN
        /\ pc = 0
        /\ Len(r.tasks) <= MaxTasks
        /\ tasks' = r.tasks
        /\ now' = IF r.res.ok THEN t ELSE now
        /\ last' = Call("app.add_task", 0, name, StatusNone, None, r.res, << >>)
        /\ pc' = IF r.panic THEN 1 ELSE 0
        /\ UNCHANGED <<moved, mem>>

App_move_to_doing(id) ==
    \E t \in Clock :
        LET r == app_move_to_doing(tasks, id, t) IN
        /\ pc = 0
        /\ tasks' = r.tasks
        /\ now' = IF r.res.ok THEN t ELSE now
        /\ last' = Call("app.move_to_doing", id, << >>, StatusNone, None,
                        r.res, << >>)
        /\ pc' = IF r.panic THEN 1 ELSE 0
        /\ UNCHANGED <<moved, mem>>

App_move_to_done(id) ==
    \E t \in Clock :
        LET r == app_move_to_done(tasks, id, t) IN
        /\ pc = 0
        /\ tasks' = r.tasks
        /\ now' = IF r.res.ok THEN t ELSE now
        /\ last' = Call("app.move_to_done", id, << >>, StatusNone, None,
                        r.res, << >>)
        /\ pc' = IF r.panic THEN 1 ELSE 0
        /\ UNCHANGED <<moved, mem>>

NextApp ==
    \/ \E in \in AddInputs : App_add_task(in[1], in[2])
    \/ \E id \in IdInputs : App_move_to_doing(id)
    \/ \E id \in IdInputs : App_move_to_done(id)

SpecApp == Init /\ [][NextApp]_vars

\* C18: App::move_to_doing(id) with an id no task has returns Err with an error
\* message, as its documented Returns section states: the call ends with an
\* error value (it returns to its caller), and the task list is unchanged.
C18_InvalidIdReturnsErr ==
    (last.op = "app.move_to_doing" /\ is_none(find_task_by_id(tasks, last.id))) =>
        /\ pc = 0
        /\ ~last.ok
        /\ last.err # NoErr


C20_Calls ==
    \A i \in 1..Len(tasks) : \A t \in Clock :
        /\ app_move_to_doing(tasks, tasks[i].id, t).res.ok
              => tasks[i].status = Todo
        /\ app_move_to_done(tasks, tasks[i].id, t).res.ok
              => tasks[i].status = Doing

C20_Step ==
    /\ (last'.op = "app.move_to_doing" /\ last'.ok) =>
          \E i \in 1..Len(tasks) :
              /\ tasks[i].id = last'.id
              /\ tasks[i].status = Todo
              /\ tasks'[i].status = Doing
    /\ (last'.op = "app.move_to_done" /\ last'.ok) =>
          \E i \in 1..Len(tasks) :
              /\ tasks[i].id = last'.id
              /\ tasks[i].status = Doing
              /\ tasks'[i].status = Done
    /\ (last'.op \in {"app.move_to_doing", "app.move_to_done"} /\ ~last'.ok) =>
          tasks' = tasks

\* C20: in the App of lib.rs move_to_doing(id) succeeds only when the task's
\* status is Todo and move_to_done(id) only when it is Doing, so no successful
\* call is a self-loop, a revert or a skip; a rejected call leaves the task's
\* status and updated_at unchanged.
C20_AppStateMachine == []C20_Calls /\ [][C20_Step]_vars


(***************************************************************************)
(* inmemory_repository.rs: the repository whose add_task takes the name    *)
(* and the description and builds the task itself.  It is written against  *)
(* the Task of domain.rs (id: Option<u32>, before_add, Status::None).      *)
(***************************************************************************)
mem_find_by_id(ms, id) ==
    first_of({i \in 1..Len(ms) : ms[i].id = Some(id)})

mem_find_by_name(ms, name) ==
    first_of({i \in 1..Len(ms) : to_lowercase(ms[i].name) = to_lowercase(name)})

\* the validation left out: whatever is not a duplicate is stored
mem_add_task_unchecked(ms, name, description, t) ==
    LET found == mem_find_by_name(ms, name) IN
    IF is_some(found)
    THEN [tasks |-> ms,
          res |-> Err(Format("Task with name '{}' already exists",
                             ms[unwrap(found)].name))]
    ELSE LET stored == [Task_new(name, description, t)
                            EXCEPT !.id = Some(Len(ms) + 1)] IN
         [tasks |-> Append(ms, stored), res |-> Ok(<<stored>>)]

mem_add_task(ms, name, description, t) ==
    LET found == mem_find_by_name(ms, name) IN
    IF is_some(found)
    THEN [tasks |-> ms,
          res |-> Err(Format("Task with name '{}' already exists",
                             ms[unwrap(found)].name))]
    ELSE LET task == Task_new(name, description, t)
             v == before_add(task)
         IN  IF ~v.ok
             THEN [tasks |-> ms, res |-> v]
             ELSE LET stored == [task EXCEPT !.id = Some(Len(ms) + 1)] IN
                  [tasks |-> Append(ms, stored), res |-> Ok(<<stored>>)]

mem_move_to_doing(ms, id, t) ==
    LET task == mem_find_by_id(ms, id) IN
    IF is_none(task)
    THEN [tasks |-> ms, res |-> Err(Msg("Task not found"))]
    ELSE LET v == before_move_to_doing(ms[unwrap(task)]) IN
         IF ~v.ok
         THEN [tasks |-> ms, res |-> v]
         ELSE [tasks |-> [ms EXCEPT ![unwrap(task)].status = Doing,
                                    ![unwrap(task)].updated_at = Some(t)],
               res |-> Ok(<< >>)]

mem_move_to_done(ms, id, t) ==
    LET task == mem_find_by_id(ms, id) IN
    IF is_none(task)
    THEN [tasks |-> ms, res |-> Err(Msg("Task not found"))]
    ELSE LET v == before_move_to_done(ms[unwrap(task)]) IN
         IF ~v.ok
         THEN [tasks |-> ms, res |-> v]
         ELSE [tasks |-> [ms EXCEPT ![unwrap(task)].status = Done,
                                    ![unwrap(task)].updated_at = Some(t)],
               res |-> Ok(<< >>)]

(***************************************************************************)
(* A caller that runs the TaskService (over the repository of              *)
(* repository.rs) and the repository of inmemory_repository.rs side by     *)
(* side: each call is made on the Service and then on the repository, each *)
(* reading the clock for itself.  last.arg holds what the repository       *)
(* returned, the rest of last what the Service returned.                   *)
(***************************************************************************)
Both_add_task(name, desc) ==
    \E t1 \in Clock : \E t2 \in t1..MaxClock :
        LET s == svc_add_task(tasks, name, desc, t1)
            m == mem_add_task(mem, name, desc, t2)
        IN  /\ Len(s.tasks) <= MaxTasks
            /\ Len(m.tasks) <= MaxTasks
            /\ tasks' = s.tasks
            /\ mem' = m.tasks
            /\ now' = IF is_none(mem_find_by_name(mem, name)) THEN t2 ELSE t1
            /\ last' = Call("both.add_task", 0, name, StatusNone, Some(m.res),
                            s.res, s.calls)
            /\ UNCHANGED <<moved, pc>>

Both_move_to_doing(id) ==
    \E t1 \in Clock : \E t2 \in t1..MaxClock :
        LET s == svc_move_to_doing(tasks, id, t1)
            m == mem_move_to_doing(mem, id, t2)
        IN  /\ tasks' = s.tasks
            /\ mem' = m.tasks
            /\ now' = IF m.res.ok THEN t2 ELSE IF s.res.ok THEN t1 ELSE now
            /\ last' = Call("both.move_to_doing", id, << >>, StatusNone,
                            Some(m.res), s.res, s.calls)
            /\ UNCHANGED <<moved, pc>>

Both_move_to_done(id) ==
    \E t1 \in Clock : \E t2 \in t1..MaxClock :
        LET s == svc_move_to_done(tasks, id, t1)
            m == mem_move_to_done(mem, id, t2)
        IN  /\ tasks' = s.tasks
            /\ mem' = m.tasks
            /\ now' = IF m.res.ok THEN t2 ELSE IF s.res.ok THEN t1 ELSE now
            /\ last' = Call("both.move_to_done", id, << >>, StatusNone,
                            Some(m.res), s.res, s.calls)
            /\ UNCHANGED <<moved, pc>>

NextBoth ==
    \/ \E in \in AddInputs : Both_add_task(in[1], in[2])
    \/ \E id \in IdInputs : Both_move_to_doing(id)
    \/ \E id \in IdInputs : Both_move_to_done(id)

SpecBoth == Init /\ [][NextBoth]_vars

\* what the claim compares of a vector: (id, name, description, status) of each
\* task, in order
Observed(ts) ==
    [i \in 1..Len(ts) |->
        <<ts[i].id, ts[i].name, ts[i].description, ts[i].status>>]

\* the calls `s` on the Service and `m` on the repository agree
Agree(s, m) ==
    /\ s.res.ok <=> m.res.ok
    /\ Observed(s.tasks) = Observed(m.tasks)

C24_Calls ==
    \A t1 \in Clock : \A t2 \in t1..MaxClock :
        /\ \A in \in AddInputs :
              Agree(svc_add_task(tasks, in[1], in[2], t1),
                    mem_add_task(mem, in[1], in[2], t2))
        /\ \A id \in IdInputs :
              /\ Agree(svc_move_to_doing(tasks, id, t1),
                       mem_move_to_doing(mem, id, t2))
              /\ Agree(svc_move_to_done(tasks, id, t1),
                       mem_move_to_done(mem, id, t2))

C24_Step ==
    /\ last'.ok <=> unwrap(last'.arg).ok
    /\ Observed(tasks') = Observed(mem')

\* C24: the repository of inmemory_repository.rs and the TaskService over the
\* repository of repository.rs, run side by side on the same sequence of
\* add_task, move_to_doing and move_to_done calls: each call succeeds in one
\* exactly when it succeeds in the other, and after every call both hold the
\* same sequence of (id, name, description, status).
C24_SideBySide ==
    [](Observed(tasks) = Observed(mem)) /\ []C24_Calls /\ [][C24_Step]_vars

\* both have just refused a duplicate that differs only by case from a stored
\* name, while both hold a completed task
C24_Witness ==
    /\ last.op = "both.add_task"
    /\ ~last.ok
    /\ ~unwrap(last.arg).ok
    /\ last.err = unwrap(last.arg).err
    /\ last.err.fmt = "Task with name '{}' already exists"
    /\ last.err.arg # last.name
    /\ \E i \in 1..Len(mem) : mem[i].status = Done /\ tasks[i].status = Done

=============================================================================
